---------------------------- MODULE Spec2Model ----------------------------
(***************************************************************************)
(* Model of the terminal web page of Woonters/website_v2:                  *)
(*   - colors.rs  : ColourTheme, the palette cycler;                       *)
(*   - macros.rs  : the effect sequences built per region and the          *)
(*                  per-frame animate! step;                               *)
(*   - main.rs    : App (render / handle_events / cycle_colour), the       *)
(*                  mpsc channel of ColourEvent, and ImageShape::new.      *)
(* The effects are tachyonfx effects; their timing (EffectTimer::process,  *)
(* the overflow a finished stage hands to the next one) is modelled as the *)
(* library computes it, where the macros call it.                          *)
(* Not modelled: layout rectangles, the list selection moved by the        *)
(* Up/Down/Enter keys and the text of the widgets.                         *)
(***************************************************************************)
EXTENDS Integers, Sequences, FiniteSets, TLC

VARIABLES
    pc,        \* position in main: "constructed" (App::default(), channel made) or "running"
    theme,     \* App.theme, a ColourTheme
    effects,   \* App.main_state_animations: region -> Effect
    rx,        \* the mpsc channel: the ColourEvents sent and not yet received
    frame,     \* what the last App::render call did (see NoFrame)
    requests,  \* number of App::cycle_colour calls
    advances,  \* number of switch_colour calls made by App::render
    sent,      \* number of ColourEvents sent into the channel
    fx,        \* an effect driven by hand with arbitrary ticks
    fed,       \* the total time fed to fx
    need,      \* the sum of the durations of fx
    image,     \* the decoded pixels given to ImageShape::new
    shape,     \* the ImageShape built from image
    canvas,    \* what ImageShape::draw painted from shape
    overflow_checks \* whether the build panics on integer overflow (debug) or wraps (release)

vars == <<pc, theme, effects, rx, frame, requests, advances, sent,
          fx, fed, need, image, shape, canvas, overflow_checks>>
appVars == <<pc, theme, effects, rx, frame, requests, advances, sent>>
fxVars == <<fx, fed, need>>
imgVars == <<image, shape, canvas, overflow_checks>>

--------------------------------------------------------------------------
(* Bounds of the model *)

\* key events 'W' per behaviour
MaxRequests == 2
\* pixels per image
MaxPixels == 2
\* the hand-driven effect is fed ticks until this many ms beyond its total duration
MaxOverfeed == 20

--------------------------------------------------------------------------
(* colors.rs *)

\* ratatui Color: Rgb(r,g,b) is the number 0xRRGGBB, a named colour is negative
Reset == -1
Black == -2
White == -3
DarkGray == -4
LightBlue == -5
Green == -6
Cyan == -7
IsRgb(c) == c >= 0

ThemeDefault ==
    [color_bg |-> Reset, color_fg |-> Reset, color_bg_alt |-> Reset,
     color_fg_alt |-> Reset, color_5 |-> Reset, color_6 |-> Reset,
     name |-> "", id |-> 0]

ThemeNew ==
    [color_bg |-> Black, color_fg |-> White, color_bg_alt |-> DarkGray,
     color_fg_alt |-> LightBlue, color_5 |-> Green, color_6 |-> Cyan,
     name |-> "Starter", id |-> 0]

to_yellow(t) ==
    [t EXCEPT !.color_bg = 3024925, !.color_fg = 14471348,
              !.color_bg_alt = 10130045, !.color_fg_alt = 15517040,
              !.color_5 = 13217911, !.color_6 = 11180145,
              !.name = "Smokey Yellow"]

to_campfire(t) ==
    [t EXCEPT !.color_bg = 2236974, !.color_fg = 10075329,
              !.color_bg_alt = 2772070, !.color_fg_alt = 15111259,
              !.color_5 = 9514283, !.color_6 = 6048084,
              !.name = "Campfire"]

to_stag(t) ==
    [t EXCEPT !.color_bg = 857384, !.color_fg = 14586536,
              !.color_bg_alt = 2770017, !.color_fg_alt = 13580641,
              !.color_5 = 9255248, !.color_6 = 8275318,
              !.name = "Stag"]

\* switch_colour with the wrap-around one palette too early
switch_colour_stuck(t) ==
    LET u == CASE t.id = 1 -> to_campfire(t)
               [] t.id = 2 -> to_stag(t)
               [] OTHER -> to_yellow(t)
    IN  [u EXCEPT !.id = IF t.id + 1 > 1 THEN 0 ELSE t.id + 1]

switch_colour(t) ==
    LET u == CASE t.id = 1 -> to_campfire(t)
               [] t.id = 2 -> to_stag(t)
               [] OTHER -> to_yellow(t)
    IN  [u EXCEPT !.id = IF t.id + 1 > 2 THEN 0 ELSE t.id + 1]

--------------------------------------------------------------------------
(* tachyonfx effects, as built by macros.rs *)

\* Option<Duration>::None
None == -1

\* every effect is a record of one shape; the fields a kind does not use are fixed
slide(tag, c, ms) ==
    [tag |-> tag, c |-> c, timer |-> ms, sub |-> <<>>, current |-> 0, event |-> FALSE]
slide_in(c, ms) == slide("slide_in", c, ms)
slide_out(c, ms) == slide("slide_out", c, ms)
prolong_start(t, e) ==
    [tag |-> "prolong_start", c |-> e.c, timer |-> t, sub |-> <<e>>, current |-> 0,
     event |-> FALSE]
dispatch_event ==
    [tag |-> "dispatch_event", c |-> Reset, timer |-> 0, sub |-> <<>>, current |-> 0,
     event |-> TRUE]
sequence(es) ==
    [tag |-> "sequence", c |-> Reset, timer |-> 0, sub |-> es, current |-> 0,
     event |-> FALSE]

SlideMs == 500

\* slide_in_and_out without the prolong_start around the slide-out
slide_in_and_out_no_delay(t, c) ==
    sequence(<<slide_out(c, SlideMs), slide_in(c, SlideMs)>>)

slide_in_and_out(t, c) ==
    sequence(<<prolong_start(t, slide_out(c, SlideMs)), slide_in(c, SlideMs)>>)

slide_in_and_out_disp(t, c) ==
    sequence(<<prolong_start(t, slide_out(c, SlideMs)), dispatch_event,
               slide_in(c, SlideMs)>>)

\* EffectTimer::process: consume duration, hand back what the timer did not need
timer_process(remaining, duration) ==
    IF remaining >= duration
    THEN [remaining |-> remaining - duration, overflow |-> None]
    ELSE [remaining |-> 0, overflow |-> duration - remaining]

RECURSIVE done(_)
done(e) ==
    CASE e.tag = "prolong_start" -> e.timer = 0 /\ done(e.sub[1])
      [] e.tag = "dispatch_event" -> ~e.event
      [] e.tag = "sequence" -> e.current >= Len(e.sub)
      [] OTHER -> e.timer = 0

running(e) == ~done(e)

RECURSIVE process(_, _)
RECURSIVE sequence_process(_, _, _)

\* Sequence: the current child takes the time; when it is done the next child
\* takes the overflow, in the same call
sequence_process(e, remaining, out) ==
    IF remaining = None \/ e.current >= Len(e.sub)
    THEN [effect |-> e, overflow |-> remaining, sent |-> out]
    ELSE LET r == process(e.sub[e.current + 1], remaining)
             e2 == [e EXCEPT !.sub[e.current + 1] = r.effect,
                             !.current = IF done(r.effect) THEN @ + 1 ELSE @]
         IN  sequence_process(e2, r.overflow, out + r.sent)

\* Shader::process for each kind of effect; sent counts the events dispatched
process(e, duration) ==
    CASE e.tag = "prolong_start" ->
            LET t == timer_process(e.timer, duration)
                r == process(e.sub[1], IF t.overflow = None THEN 0 ELSE t.overflow)
            IN  [effect |-> [e EXCEPT !.timer = t.remaining, !.sub = <<r.effect>>],
                 overflow |-> r.overflow, sent |-> r.sent]
      [] e.tag = "dispatch_event" ->
            [effect |-> [e EXCEPT !.event = FALSE], overflow |-> duration,
             sent |-> IF e.event THEN 1 ELSE 0]
      [] e.tag = "sequence" -> sequence_process(e, duration, 0)
      [] OTHER ->
            LET t == timer_process(e.timer, duration)
            IN  [effect |-> [e EXCEPT !.timer = t.remaining],
                 overflow |-> t.overflow, sent |-> 0]

\* animate!: a running effect is processed for the frame's duration
animate(e, ms) ==
    IF running(e) THEN process(e, ms) ELSE [effect |-> e, overflow |-> None, sent |-> 0]

--------------------------------------------------------------------------
(* main.rs: the application *)

Regions == {"title", "mini_about", "links", "about", "headshot", "tabs", "help"}
Staggered == Regions \ {"title"}
Widgets == {"help_bar", "tabs_bar", "title", "mini_about", "links", "about",
            "headshot", "empty"}

\* the duration render_main passes to animate!
FrameMs == 7
\* rng.gen() % 100
DelayModulus == 100
\* the stagger delays the model draws, out of 0 .. DelayModulus - 1
Delays == {0, DelayModulus - 1}

InitialBackdrop == 1052688

MainAnimationStateDefault ==
    [r \in Regions |->
        CASE r = "mini_about" -> prolong_start(100, slide_in(InitialBackdrop, SlideMs))
          [] r = "links" -> prolong_start(150, slide_in(InitialBackdrop, SlideMs))
          [] r = "about" -> prolong_start(90, slide_in(InitialBackdrop, SlideMs))
          [] r = "headshot" -> prolong_start(20, slide_in(InitialBackdrop, SlideMs))
          [] OTHER -> slide_in(InitialBackdrop, SlideMs)]

create_fresh_animations(bg_1, d) ==
    [r \in Regions |->
        IF r = "title" THEN slide_in_and_out_disp(0, bg_1)
        ELSE slide_in_and_out(d[r], bg_1)]

\* try_recv that reads the first event and leaves it in the channel
try_recv_peek(ch) ==
    IF ch = <<>> THEN [ok |-> FALSE, rest |-> ch] ELSE [ok |-> TRUE, rest |-> ch]

\* Receiver::try_recv: take the first event if there is one, never wait
try_recv(ch) ==
    IF ch = <<>> THEN [ok |-> FALSE, rest |-> ch] ELSE [ok |-> TRUE, rest |-> Tail(ch)]

\* the poll advancing the palette twice for one event
polled_theme_twice(th, ok) == IF ok THEN switch_colour(switch_colour(th)) ELSE th

\* App::render, lines 244-246: the theme after the poll of the channel
polled_theme(th, ok) == IF ok THEN switch_colour(th) ELSE th

\* render_main with the help bar built before the channel is polled
widget_palettes_early(entry, polled) ==
    [w \in Widgets |-> IF w = "help_bar" THEN entry.name ELSE polled.name]

\* App::render_main, lines 283-290: the palette each widget is built from; entry is
\* the theme render was entered with, polled the theme after the poll
widget_palettes(entry, polled) == [w \in Widgets |-> polled.name]

\* App::canvas, lines 342-346: the tint the headshot is drawn with
canvas_tint(th) == th.color_bg

\* the slide-out stage of a region's sequence is over
slide_out_finished(e) == e.tag = "sequence" /\ e.current >= 1
\* the sequence with the dispatch has reached its slide-in stage
slide_in_reached(e) == e.tag = "sequence" /\ Len(e.sub) = 3 /\ e.current >= 2

Events(n) == [i \in 1..n |-> "Switch"]

\* frame: what the last App::render call did
\*   drawn           a frame has been rendered
\*   received        try_recv returned a ColourEvent
\*   taken           number of events the poll took out of the channel
\*   palette         the palette name each widget was coloured from
\*   hidden          the regions whose slide-out stage was over when the channel was polled
\*   title_slide_in  the title's slide-in stage (after its dispatch) was processed
\*   pending         number of events left in the channel when render returned
\*   tint            the tint_colour App::canvas gave to ImageShape::new
\*   unimplemented   ImageShape::draw reached its unimplemented! arm
NoFrame ==
    [drawn |-> FALSE, received |-> FALSE, taken |-> 0,
     palette |-> [w \in Widgets |-> ""], hidden |-> {},
     title_slide_in |-> FALSE, pending |-> 0,
     tint |-> Reset, unimplemented |-> FALSE]

\* canvas: nothing drawn yet
NoCanvas == [drawn |-> FALSE, unimplemented |-> FALSE, tint |-> Reset, points |-> <<>>]

Init ==
    /\ pc = "constructed"
    /\ theme = ThemeDefault
    /\ effects = MainAnimationStateDefault
    /\ rx = <<>>
    /\ frame = NoFrame
    /\ requests = 0
    /\ advances = 0
    /\ sent = 0
    /\ fx = sequence(<<>>)
    /\ fed = 0
    /\ need = 0
    /\ image = <<>>
    /\ shape = [built |-> FALSE, panicked |-> FALSE, max |-> 0]
    /\ canvas = NoCanvas
    /\ overflow_checks = FALSE

\* main without the switch_colour before the callbacks are registered
MainNoSwitch ==
    /\ pc = "constructed"
    /\ pc' = "running"
    /\ UNCHANGED <<theme, effects, rx, frame, requests, advances, sent, fxVars, imgVars>>

\* main, lines 80-95: the first switch_colour, then the callbacks are registered
Main ==
    /\ pc = "constructed"
    /\ pc' = "running"
    /\ theme' = switch_colour(theme)
    /\ UNCHANGED <<effects, rx, frame, requests, advances, sent, fxVars, imgVars>>

\* cycle_colour advancing the palette itself
cycle_colour_direct(d) ==
    /\ effects' = create_fresh_animations(theme.color_bg, d)
    /\ requests' = requests + 1
    /\ theme' = switch_colour(theme)
    /\ UNCHANGED <<rx, advances, sent>>

\* App::cycle_colour
cycle_colour(d) ==
    /\ effects' = create_fresh_animations(theme.color_bg, d)
    /\ requests' = requests + 1
    /\ UNCHANGED <<theme, rx, advances, sent>>

\* App::handle_events on 'W'
KeyW ==
    /\ pc = "running"
    /\ requests < MaxRequests
    /\ \E d \in [Staggered -> Delays] : cycle_colour(d)
    /\ UNCHANGED <<pc, frame, fxVars, imgVars>>

\* App::handle_events on a key that is not 'W': Up, Down and Enter act on the list
\* selection, which is not part of this model; no other state is written
KeyOther ==
    /\ pc = "running"
    /\ UNCHANGED vars

\* App::render with render_main: poll, colour the widgets, animate the regions
Render ==
    /\ pc = "running"
    /\ LET polled == try_recv(rx)
           th == polled_theme(theme, polled.ok)
           res == [r \in Regions |-> animate(effects[r], FrameMs)]
           emitted == res["title"].sent
       IN  /\ theme' = th
           /\ effects' = [r \in Regions |-> res[r].effect]
           /\ rx' = polled.rest \o Events(emitted)
           /\ advances' = advances + (IF polled.ok THEN 1 ELSE 0)
           /\ sent' = sent + emitted
           /\ frame' = [drawn |-> TRUE,
                        received |-> polled.ok,
                        taken |-> Len(rx) - Len(polled.rest),
                        palette |-> widget_palettes(theme, th),
                        hidden |-> {r \in Regions : slide_out_finished(effects[r])},
                        title_slide_in |-> running(effects["title"])
                                           /\ slide_in_reached(res["title"].effect),
                        pending |-> Len(polled.rest) + emitted,
                        tint |-> canvas_tint(th),
                        unimplemented |-> ~IsRgb(canvas_tint(th))]
    /\ UNCHANGED <<pc, requests, fxVars, imgVars>>

Next == Main \/ KeyW \/ KeyOther \/ Render

Spec == Init /\ [][Next]_vars

--------------------------------------------------------------------------
(* A region effect driven by hand: slide_in_and_out under arbitrary ticks *)

\* the delays and the tick lengths tried, in ms
FxDelays == {0, 50, 99, 100}
TickSizes == {1, FrameMs, 100, 250, SlideMs}

InitFx ==
    /\ pc = "constructed"
    /\ theme = ThemeDefault
    /\ effects = MainAnimationStateDefault
    /\ rx = <<>>
    /\ frame = NoFrame
    /\ requests = 0
    /\ advances = 0
    /\ sent = 0
    /\ \E t \in FxDelays :
          /\ fx = slide_in_and_out(t, InitialBackdrop)
          /\ need = t + SlideMs + SlideMs
    /\ fed = 0
    /\ image = <<>>
    /\ shape = [built |-> FALSE, panicked |-> FALSE, max |-> 0]
    /\ canvas = NoCanvas
    /\ overflow_checks = FALSE

\* one animate! step of fx with a frame duration of d ms
Tick ==
    /\ fed < need + MaxOverfeed
    /\ \E d \in TickSizes :
          /\ fx' = animate(fx, d).effect
          /\ fed' = fed + d
    /\ UNCHANGED <<need, appVars, imgVars>>

NextFx == Tick

SpecFx == InitFx /\ [][NextFx]_vars

--------------------------------------------------------------------------
(* main.rs: ImageShape::new *)

\* the channel values the pixels of the model are made of
Channels == {0, 64, 255}
Pixels == [1..4 -> Channels]
Images == UNION {[1..n -> Pixels] : n \in 1..MaxPixels}

U8Max == 255

\* the sum of the first k channels of pixel p, as the integers have it
RECURSIVE true_sum(_, _)
true_sum(p, k) == IF k = 0 THEN 0 ELSE true_sum(p, k - 1) + p[k]

\* iter().sum::<u8>(): the same additions in u8; an addition that leaves 0..255
\* wraps in a build without overflow checks and panics in a build with them
sum_u8(p) == true_sum(p, 4) % (U8Max + 1)
sum_u8_overflows(p) == true_sum(p, 4) > U8Max

\* Iterator::max_by over the pixels 1..k: the index of the last pixel whose
\* u8 sum is the greatest
RECURSIVE max_by(_, _)
max_by(img, k) ==
    IF k = 1 THEN 1
    ELSE LET m == max_by(img, k - 1)
         IN  IF sum_u8(img[k]) >= sum_u8(img[m]) THEN k ELSE m

\* ImageShape::new, lines 529-537
image_shape_new(img, checks) ==
    IF checks /\ \E i \in 1..Len(img) : sum_u8_overflows(img[i])
    THEN [built |-> TRUE, panicked |-> TRUE, max |-> 0]
    ELSE [built |-> TRUE, panicked |-> FALSE,
          max |-> sum_u8(img[max_by(img, Len(img))]) \div 4]

\* DynamicImage::to_luma8 of an Rgba pixel: the integer sRGB weights of the image
\* crate, the alpha channel dropped
to_luma8(p) == (2126 * p[1] + 7152 * p[2] + 722 * p[3]) \div 10000

\* the r, g, b of Color::Rgb
rgb(c) == <<c \div 65536, (c \div 256) % 256, c % 256>>

\* the tints tried: color_bg (the one App::canvas passes) and color_fg of each palette
Tints == {3024925, 2236974, 857384, 14471348, 10075329, 14586536}

\* a cast that wraps into 0..255 instead of saturating
f64_as_u8_wrapping(num, den) == IF den = 0 THEN 0 ELSE (num \div den) % (U8Max + 1)

\* (x as u8) for the f64 x = num / den with num, den >= 0: truncated and saturated
\* at 255; the infinity of a division by zero saturates and NaN (0.0 / 0.0, or
\* 0.0 * infinity) gives 0. The quotient is taken exactly, without f64 rounding.
f64_as_u8(num, den) ==
    IF den = 0 THEN (IF num = 0 THEN 0 ELSE U8Max)
    ELSE IF num \div den > U8Max THEN U8Max ELSE num \div den

\* lines 557-566: h = luma / max, then each tint channel times h, as u8
paint(tint, luma, max) == [ch \in 1..3 |-> f64_as_u8(rgb(tint)[ch] * luma, max)]

\* lines 556-569 for one pixel with a point on the canvas: its greyscale value
\* and the colour painted for it
draw_point(tint, luma, max) == [luma |-> luma, colour |-> paint(tint, luma, max)]

\* ImageShape::draw, every pixel taken to have a point on the canvas
image_shape_draw(img, max, tint) ==
    IF ~IsRgb(tint)
    THEN [drawn |-> TRUE, unimplemented |-> TRUE, tint |-> tint, points |-> <<>>]
    ELSE [drawn |-> TRUE, unimplemented |-> FALSE, tint |-> tint,
          points |-> [i \in 1..Len(img) |-> draw_point(tint, to_luma8(img[i]), max)]]

InitImage ==
    /\ pc = "constructed"
    /\ theme = ThemeDefault
    /\ effects = MainAnimationStateDefault
    /\ rx = <<>>
    /\ frame = NoFrame
    /\ requests = 0
    /\ advances = 0
    /\ sent = 0
    /\ fx = sequence(<<>>)
    /\ fed = 0
    /\ need = 0
    /\ image \in Images
    /\ shape = [built |-> FALSE, panicked |-> FALSE, max |-> 0]
    /\ canvas = NoCanvas
    /\ overflow_checks \in BOOLEAN

ImageShapeNew ==
    /\ ~shape.built
    /\ shape' = image_shape_new(image, overflow_checks)
    /\ UNCHANGED <<image, canvas, overflow_checks, appVars, fxVars>>

\* ImageShape::draw of the shape just built, with one of the tints
Draw ==
    /\ shape.built /\ ~shape.panicked
    /\ ~canvas.drawn
    /\ \E tint \in Tints : canvas' = image_shape_draw(image, shape.max, tint)
    /\ UNCHANGED <<image, shape, overflow_checks, appVars, fxVars>>

NextImage == ImageShapeNew \/ Draw

SpecImage == InitImage /\ [][NextImage]_vars

--------------------------------------------------------------------------
(* main.rs: the arithmetic of ImageShape::draw on one pixel, for every greyscale
   value, every normalization constant and each tint *)

InitPaint ==
    /\ pc = "constructed"
    /\ theme = ThemeDefault
    /\ effects = MainAnimationStateDefault
    /\ rx = <<>>
    /\ frame = NoFrame
    /\ requests = 0
    /\ advances = 0
    /\ sent = 0
    /\ fx = sequence(<<>>)
    /\ fed = 0
    /\ need = 0
    /\ image = <<>>
    /\ \E m \in 0..U8Max : shape = [built |-> TRUE, panicked |-> FALSE, max |-> m]
    /\ canvas = NoCanvas
    /\ overflow_checks = FALSE

\* the closure of draw, lines 556-569, on one pixel of greyscale value luma
PaintPoint ==
    /\ ~canvas.drawn
    /\ \E tint \in Tints, luma \in 0..U8Max :
          canvas' = [drawn |-> TRUE, unimplemented |-> ~IsRgb(tint), tint |-> tint,
                     points |-> <<draw_point(tint, luma, shape.max)>>]
    /\ UNCHANGED <<image, shape, overflow_checks, appVars, fxVars>>

NextPaint == PaintPoint

SpecPaint == InitPaint /\ [][NextPaint]_vars

--------------------------------------------------------------------------
(* Claims *)

AllFinished == \A r \in Regions : ~running(effects[r])

\* C1: whenever App::render advances the palette on a received Switch, the
\* slide-out stage of every one of the seven regions is already over.
C1_OldColoursHidden == frame.received => frame.hidden = Regions

\* C2: the Switch is received, and the palette advanced, before the first frame
\* that processes the title's slide-in stage: no frame that processed the
\* slide-in returns with the Switch still waiting in the channel.
C2_SwitchBeforeSlideIn == frame.title_slide_in => frame.pending = 0

\* C3: once all region effects have finished, the number of palette advances
\* made by render equals the number of cycle_colour calls.
C3_OneAdvancePerRequest ==
    (pc = "running" /\ AllFinished) => advances = requests

\* C4: every Switch sent is received by one render call, which advances the
\* palette once: the events sent are the events received plus those waiting,
\* a poll takes at most one, and the palette is the one reached by exactly
\* one step per received event.
C4_OneAdvancePerSignal ==
    pc = "running" =>
        /\ sent = advances + Len(rx)
        /\ frame.taken = (IF frame.received THEN 1 ELSE 0)
        /\ theme.id = (1 + advances) % 3
C4_Witness ==
    /\ advances = 2
    /\ rx = <<>>
    /\ frame.drawn /\ ~frame.received
    /\ theme.name = "Stag"

Switch3(t) == switch_colour(switch_colour(switch_colour(t)))

\* C5 as stated: from every state of the cycler, the constructed one included,
\* three switch_colour calls return to the same palette.
C5_CycleFromAnyState == Switch3(theme) = theme
\* C5 amended: from every state after the first switch_colour (every state the
\* callbacks see), three switch_colour calls return to the same palette.
C5_CycleAfterFirstSwitch == pc = "running" => Switch3(theme) = theme
C5_Witness == pc = "running" /\ theme.name = "Stag" /\ Switch3(theme) = theme

\* C6: render polls the channel once, before any widget colour is read: all
\* widgets of a frame are coloured from the palette current after the poll.
C6_PollBeforeColours ==
    frame.drawn =>
        /\ frame.taken <= 1
        /\ \A w \in Widgets : frame.palette[w] = theme.name
C6_Witness ==
    /\ frame.drawn /\ frame.received /\ advances = 1
    /\ \A w \in Widgets : frame.palette[w] = "Campfire"

\* C7: once the callbacks are registered, the theme changes only in a render
\* call that received a Switch; key events leave it unchanged.
C7_OnlyRenderSwitches ==
    [][(pc = "running" /\ theme' # theme) =>
            /\ rx # <<>>
            /\ frame'.received
            /\ advances' = advances + 1
            /\ requests' = requests
            /\ theme' = switch_colour(theme)]_vars
C7_Witness == requests = 2 /\ advances = 1 /\ theme.name = "Campfire"

\* C8: the channel never holds more than one unconsumed Switch.
C8_AtMostOnePending == Len(rx) <= 1
\* a Switch of the first sequence is still waiting when 'W' builds the second one
C8_Witness == Len(rx) = 1 /\ requests = 2 /\ effects["title"].current = 0

\* C9: sequence[prolong_start(t, slide_out(500)), slide_in(500)] is finished
\* exactly when the time fed to it is at least t + 500 + 500, however the
\* time is cut into ticks.
C9_FinishedIffFed == done(fx) <=> fed >= need
C9_Witness == need = 1100 /\ fed = need /\ done(fx)

\* C10: the normalization constant is the greatest true sum of a pixel's four
\* channels, divided by 4.
C10_MaxIsTrueSum ==
    shape.built =>
        /\ ~shape.panicked
        /\ \E i \in 1..Len(image) :
              /\ \A j \in 1..Len(image) : true_sum(image[j], 4) <= true_sum(image[i], 4)
              /\ shape.max = true_sum(image[i], 4) \div 4

\* C11: the brightness ratio of every pixel drawn lies in [0, 1]: no pixel's
\* greyscale value exceeds max, and max is not 0.
C11_RatioInUnitInterval ==
    canvas.drawn =>
        /\ shape.max # 0
        /\ \A i \in 1..Len(canvas.points) : canvas.points[i].luma <= shape.max

PaletteNames == {"Smokey Yellow", "Campfire", "Stag"}

\* C13: in every render call the theme is one of the three named palettes, not
\* the constructed state; the tint given to ImageShape is a direct RGB colour
\* and the unimplemented! arm of draw is not reached.
C13_NamedPaletteInEveryFrame ==
    frame.drawn =>
        /\ theme.name \in PaletteNames
        /\ theme # ThemeDefault /\ theme # ThemeNew
        /\ \A w \in Widgets : frame.palette[w] \in PaletteNames
        /\ IsRgb(frame.tint)
        /\ ~frame.unimplemented
\* frames have been rendered in each of the three palettes' turns, keys included
C13_Witness ==
    /\ frame.drawn /\ requests = 2 /\ advances = 2
    /\ theme.name = "Stag" /\ frame.tint = 857384

\* the three palettes, in the order switch_colour reaches them
Palettes ==
    LET p1 == switch_colour(ThemeDefault)
        p2 == switch_colour(p1)
        p3 == switch_colour(p2)
    IN  {p1, p2, p3}

\* the palette that was current at the last 'W': cycle_colour gave its color_bg
\* to the effects it built
PaletteAtRequest ==
    LET e == effects["title"]
    IN  CHOOSE p \in Palettes : p.color_bg = e.sub[Len(e.sub)].c

\* no effect is running and no event is waiting: frames change nothing any more
Quiescent == AllFinished /\ rx = <<>>

\* C14: after the last 'W', once all seven region effects have stopped the
\* palette is the one that follows, in the cycle, the palette current at that 'W'.
C14_NextPaletteWhenStopped ==
    (requests >= 1 /\ Quiescent) => theme = switch_colour(PaletteAtRequest)

==========================================================================
